---- MODULE Spec2Model ----
(***************************************************************************)
(* CustomAllocator<T> (a bump allocator over a std::vector<char>) and      *)
(* CustomContainer<T, CustomAllocator<T>> of src/main.cpp.                 *)
(*                                                                         *)
(* Addresses are integers.  The allocator's buffer is a block of the free  *)
(* store: std::vector<char>::resize keeps the block when the new size fits *)
(* the block's capacity, and otherwise takes a new block (anywhere the     *)
(* free store has room while the old block is still held), copies the      *)
(* bytes and gives the old block back.  A pointer obtained before such a   *)
(* move dangles: reading through it yields any value.                      *)
(***************************************************************************)
EXTENDS Integers, Sequences, FiniteSets

\* ---------------------------------------------------------------- bounds
MaxBlockSize == 2      \* block_size is drawn from 1..MaxBlockSize
MaxCount     == 3      \* allocate(n) is called with n in 0..MaxCount
MaxAllocs    == 2      \* a direct client makes at most this many allocate(n > 0) calls
MaxAdds      == 3      \* a container is given at most this many elements
MaxValue     == 1      \* the container is given values in 1..MaxValue
HeapSlots    == 6      \* the free store holds this many T-sized, T-aligned slots

\* ------------------------------------------------------ program constants
SizeofT == 4           \* sizeof(T) for T = int, the element type of main
NULL    == 0           \* nullptr
DefaultBlockSize == 10 \* CustomAllocator() : CustomAllocator(10)
SizeofRebound == 8     \* sizeof of the element type an allocator is converted to
                       \* (std::pair<const int, int>, the other element type of main)

VARIABLES
    alloc,      \* the CustomAllocator: block_size, allocated, buffer, allocated_objects
    data,       \* CustomContainer::data, the owned addresses in insertion order
    client,     \* who drives the allocator: "direct" calls, or a "container"
    alive,      \* FALSE once the object has been destroyed
    geometric,  \* the build's std::vector growth policy (TRUE: at least doubling)
    hist,       \* history: every allocate(n > 0) so far: the address returned, the
                \* count, the buffer generation, the value constructed there (0: none)
    released,   \* history: addresses deallocate released that allocate has not returned since
    dtorLog,    \* history: the addresses p->~T() has been invoked on, in order
    out,        \* the values the call just made has read, in order (display, iteration)
    last,       \* the last call: its name, arguments, result and number of p->~T() it made
    other,      \* a second allocator made from alloc: a same-type copy or a
                \* converted (rebound) one, or none
    outstanding \* history: the allocations (indices of hist) whose address has not
                \* been passed to deallocate since

vars == <<alloc, data, client, alive, geometric, hist, released, dtorLog, out, last,
          other, outstanding>>

Max(a, b) == IF a >= b THEN a ELSE b

HeapSize == HeapSlots * SizeofT
\* Block addresses the free store can return: non-null, aligned for T.
HeapAddrs == {s * SizeofT : s \in 1..HeapSlots}
HeapEnd == SizeofT + HeapSize

Values == 1..MaxValue
\* What a read of a T can yield when the pointer dangles.
AnyValue == 0..MaxValue

\* --------------------------------------------------------- std::vector<char>
EmptyBuffer == [data |-> NULL, size |-> 0, capacity |-> 0, gen |-> 0, cells |-> <<>>]

\* The capacity resize() asks for when the new size does not fit.
NewCapacity(buf, newSize, geo) ==
    IF geo THEN Max(newSize, 2 * buf.size) ELSE newSize

Overlaps(a1, len1, a2, len2) == a1 < a2 + len2 /\ a2 < a1 + len1

\* The blocks the free store can hand out for a buffer of newSize bytes while
\* buf's block is still held.
Places(buf, newSize, geo) ==
    LET cap == NewCapacity(buf, newSize, geo)
    IN {pl \in [data : HeapAddrs, capacity : {cap}] :
            /\ pl.data + cap <= HeapEnd
            /\ ~Overlaps(pl.data, cap, buf.data, buf.capacity)}

NoPlace == [data |-> NULL, capacity |-> 0]

\* buffer.resize(newSize), growing.  The new bytes are zero; a buffer that
\* moved starts a new generation (pointers of older generations dangle).
resize(buf, newSize, place) ==
    LET cells == [i \in 1..(newSize \div SizeofT) |->
                     IF i <= Len(buf.cells) THEN buf.cells[i] ELSE 0]
    IN IF newSize <= buf.capacity
       THEN [buf EXCEPT !.size = newSize, !.cells = cells]
       ELSE [buf EXCEPT !.data = place.data, !.size = newSize, !.cells = cells,
                        !.capacity = place.capacity, !.gen = @ + 1]

\* buffer.clear()
clear(buf) == [buf EXCEPT !.size = 0, !.cells = <<>>]

\* The T-sized cell of buf that address p names, 0 when p names none.
CellOf(buf, p) ==
    IF /\ p >= buf.data /\ p + SizeofT <= buf.data + buf.size
       /\ (p - buf.data) % SizeofT = 0
    THEN (p - buf.data) \div SizeofT + 1
    ELSE 0

\* ---------------------------------------------------------- CustomAllocator
expand(a, place) ==
    [a EXCEPT !.buffer = resize(a.buffer, a.buffer.size + a.block_size * SizeofT, place)]

\* explicit CustomAllocator(size_t block_size)
CustomAllocator(bs, place) ==
    expand([block_size |-> bs, allocated |-> 0, buffer |-> EmptyBuffer,
            allocated_objects |-> {}], place)

NeedsExpand(a, n) == n # 0 /\ a.allocated + n * SizeofT > a.buffer.size

\* allocate without its guard against n == 0.
allocate_NoZeroGuard(a, n, place) ==
    LET a1 == IF a.allocated + n * SizeofT > a.buffer.size
              THEN expand(a, place) ELSE a
        result == a1.buffer.data + a1.allocated
    IN [alloc |-> [a1 EXCEPT !.allocated = @ + n * SizeofT,
                             !.allocated_objects = @ \cup {result}],
        result |-> result]

\* allocate growing already when the request exactly fills the buffer (>= for >).
allocate_GrowAtBoundary(a, n, place) ==
    IF n = 0 THEN [alloc |-> a, result |-> NULL]
    ELSE LET a1 == IF a.allocated + n * SizeofT >= a.buffer.size
                   THEN expand(a, place) ELSE a
             result == a1.buffer.data + a1.allocated
         IN [alloc |-> [a1 EXCEPT !.allocated = @ + n * SizeofT,
                                  !.allocated_objects = @ \cup {result}],
             result |-> result]

\* T* allocate(size_t n): the allocator afterwards and the pointer returned.
allocate(a, n, place) ==
    IF n = 0 THEN [alloc |-> a, result |-> NULL]
    ELSE LET a1 == IF a.allocated + n * SizeofT > a.buffer.size
                   THEN expand(a, place) ELSE a
             result == a1.buffer.data + a1.allocated
         IN [alloc |-> [a1 EXCEPT !.allocated = @ + n * SizeofT,
                                  !.allocated_objects = @ \cup {result}],
             result |-> result]

\* deallocate that forgets allocated_objects.erase(p).
deallocate_NoErase(a, p, n) ==
    IF p \in a.allocated_objects
    THEN [alloc |-> a, destroyed |-> <<p>>]
    ELSE [alloc |-> a, destroyed |-> <<>>]

\* deallocate without the lookup: it destructs whatever it is given.
deallocate_Unchecked(a, p, n) ==
    [alloc |-> [a EXCEPT !.allocated_objects = @ \ {p}], destroyed |-> <<p>>]

\* deallocate that gives the released bytes back by rewinding the cursor.
deallocate_Reclaim(a, p, n) ==
    IF p \in a.allocated_objects
    THEN [alloc |-> [a EXCEPT !.allocated_objects = @ \ {p},
                              !.allocated = @ - n * SizeofT],
          destroyed |-> <<p>>]
    ELSE [alloc |-> a, destroyed |-> <<>>]

\* void deallocate(T* p, size_t n): the allocator afterwards and the
\* addresses whose destructor ran.
deallocate(a, p, n) ==
    IF p \in a.allocated_objects
    THEN [alloc |-> [a EXCEPT !.allocated_objects = @ \ {p}], destroyed |-> <<p>>]
    ELSE [alloc |-> a, destroyed |-> <<>>]

\* The orders in which a loop over the unordered_set S can visit it.
Orders(S) ==
    {s \in [1..Cardinality(S) -> S] : \A i, j \in DOMAIN s : i # j => s[i] # s[j]}

\* ~CustomAllocator() without its loop over allocated_objects.
DestroyAllocator_NoLoop(a, order) ==
    [alloc |-> [a EXCEPT !.buffer = clear(a.buffer)], destroyed |-> <<>>]

\* ~CustomAllocator(), visiting allocated_objects in the order given: the
\* allocator afterwards and the addresses whose destructor ran.
DestroyAllocator(a, order) ==
    [alloc |-> [a EXCEPT !.buffer = clear(a.buffer)], destroyed |-> order]

\* The places a call allocate(n) on a can be given: one the free store can
\* supply when the call moves the buffer, none otherwise.
PlacesFor(a, n, geo) ==
    IF NeedsExpand(a, n) /\ a.buffer.size + a.block_size * SizeofT > a.buffer.capacity
    THEN Places(a.buffer, a.buffer.size + a.block_size * SizeofT, geo)
    ELSE {NoPlace}

Call(op, n, p, value, result, destroyed) ==
    [op |-> op, n |-> n, p |-> p, value |-> value, result |-> result,
     destroyed |-> destroyed]

Allocation(p, n, gen, value) == [addr |-> p, n |-> n, gen |-> gen, value |-> value]

EmptyAllocator ==
    [block_size |-> 0, allocated |-> 0, buffer |-> EmptyBuffer, allocated_objects |-> {}]
NoOther == [kind |-> "none", alloc |-> EmptyAllocator, alive |-> FALSE]

\* ---------------------------------------------------------------- Init
Init ==
    /\ geometric \in BOOLEAN
    /\ client \in {"direct", "container"}
    /\ \E bs \in 1..MaxBlockSize :
         \E place \in Places(EmptyBuffer, bs * SizeofT, geometric) :
            alloc = CustomAllocator(bs, place)
    /\ data = <<>>
    /\ alive = TRUE
    /\ hist = <<>>
    /\ dtorLog = <<>>
    /\ out = <<>>
    /\ released = {}
    /\ last = Call("construct", 0, NULL, 0, NULL, 0)
    /\ other = NoOther
    /\ outstanding = {}

\* ------------------------------------------------------- direct client calls
\* A new block cannot lie over the block a second, living allocator holds.
ClearOfOther(place) ==
    other.alive => ~Overlaps(place.data, place.capacity,
                             other.alloc.buffer.data, other.alloc.buffer.capacity)

Allocate ==
    /\ alive /\ client = "direct"
    /\ \E n \in 0..MaxCount :
         /\ n > 0 => Len(hist) < MaxAllocs
         /\ \E place \in PlacesFor(alloc, n, geometric) :
              LET r == allocate(alloc, n, place)
              IN /\ ClearOfOther(place)
                 /\ alloc' = r.alloc
                 /\ hist' = IF n = 0 THEN hist
                            ELSE Append(hist, Allocation(r.result, n, r.alloc.buffer.gen, 0))
                 /\ released' = released \ {r.result}
                 /\ last' = Call("allocate", n, NULL, 0, r.result, 0)
                 /\ outstanding' = IF n = 0 THEN outstanding
                                   ELSE outstanding \cup {Len(hist) + 1}
    /\ out' = <<>>
    /\ UNCHANGED <<data, client, alive, geometric, dtorLog, other>>

\* The pointers a client passes to deallocate: those allocate returned, the
\* null pointer, and an address allocate never returned (the cursor's).
Pointers ==
    {hist[i].addr : i \in DOMAIN hist} \cup {NULL, alloc.buffer.data + alloc.allocated}

\* The counts a client passes with p: the one p was allocated with, or 1.
CountsFor(p) == {hist[i].n : i \in {j \in DOMAIN hist : hist[j].addr = p}} \cup {1}

Deallocate ==
    /\ alive /\ client = "direct"
    /\ \E p \in Pointers : \E n \in CountsFor(p) :
         LET r == deallocate(alloc, p, n)
         IN /\ alloc' = r.alloc
            /\ dtorLog' = dtorLog \o r.destroyed
            /\ released' = released \cup {r.destroyed[i] : i \in DOMAIN r.destroyed}
            /\ last' = Call("deallocate", n, p, 0, NULL, Len(r.destroyed))
            /\ outstanding' = {i \in outstanding : hist[i].addr # p}
    /\ out' = <<>>
    /\ UNCHANGED <<data, client, alive, geometric, hist, other>>

\* The allocator goes out of scope.
Destroy ==
    /\ alive /\ client = "direct"
    /\ \E order \in Orders(alloc.allocated_objects) :
         LET r == DestroyAllocator(alloc, order)
         IN /\ alloc' = r.alloc
            /\ dtorLog' = dtorLog \o r.destroyed
            /\ last' = Call("~CustomAllocator", 0, NULL, 0, NULL, Len(r.destroyed))
    /\ alive' = FALSE
    /\ out' = <<>>
    /\ UNCHANGED <<data, client, geometric, hist, released, other, outstanding>>

\* ---------------------------------------------------------- CustomContainer
\* new(p) T(value): the buffer with value stored in the cell p names.
Construct(buf, p, value) ==
    IF CellOf(buf, p) # 0 THEN [buf EXCEPT !.cells[CellOf(buf, p)] = value] ELSE buf

\* void add(const T& value)
Add ==
    /\ alive /\ client = "container"
    /\ Len(data) < MaxAdds
    /\ \E value \in Values :
         \E place \in PlacesFor(alloc, 1, geometric) :
            LET r == allocate(alloc, 1, place)
                p == r.result
            IN /\ alloc' = [r.alloc EXCEPT !.buffer = Construct(@, p, value)]
               /\ data' = Append(data, p)
               /\ hist' = Append(hist, Allocation(p, 1, r.alloc.buffer.gen, value))
               /\ released' = released \ {p}
               /\ last' = Call("add", 1, NULL, value, p, 0)
    /\ outstanding' = outstanding \cup {Len(hist) + 1}
    /\ out' = <<>>
    /\ UNCHANGED <<client, alive, geometric, dtorLog, other>>

\* empty() written as data.size() != 0.
empty_Inverted(d) == Len(d) # 0

\* size_t size() const
size(d) == Len(d)

\* bool empty() const
empty(d) == d = <<>>

\* The values *p can yield for the i-th owned address: the cell's value when
\* the pointer still points into the buffer it was obtained from, anything
\* when the buffer has moved since.
Deref(i) ==
    IF hist[i].gen = alloc.buffer.gen /\ CellOf(alloc.buffer, data[i]) # 0
    THEN {alloc.buffer.cells[CellOf(alloc.buffer, data[i])]}
    ELSE AnyValue

\* for (auto p : data) ... *p: the sequences of values the walk can read.
Traversals == {t \in [DOMAIN data -> AnyValue] : \A i \in DOMAIN data : t[i] \in Deref(i)}

\* void display() const
Display ==
    /\ alive /\ client = "container"
    /\ out' \in Traversals
    /\ last' = Call("display", 0, NULL, 0, NULL, 0)
    /\ UNCHANGED <<alloc, data, client, alive, geometric, hist, released, dtorLog,
                   other, outstanding>>

\* for (it = begin(); it != end(); ++it) ... **it
Iterate ==
    /\ alive /\ client = "container"
    /\ out' \in Traversals
    /\ last' = Call("iterate", 0, NULL, 0, NULL, 0)
    /\ UNCHANGED <<alloc, data, client, alive, geometric, hist, released, dtorLog,
                   other, outstanding>>

\* The loop of ~CustomContainer() over data[i..]: the allocator afterwards and
\* the addresses whose destructor ran, in order.
RECURSIVE DeallocateAll(_, _, _)
DeallocateAll(a, ps, i) ==
    IF i > Len(ps) THEN [alloc |-> a, destroyed |-> <<>>]
    ELSE LET r == deallocate(a, ps[i], 1)
             rest == DeallocateAll(r.alloc, ps, i + 1)
         IN [alloc |-> rest.alloc, destroyed |-> r.destroyed \o rest.destroyed]

\* ~CustomContainer(): the loop over data, then the members: data is
\* discarded and the allocator's destructor runs.
DestroyContainer ==
    /\ alive /\ client = "container"
    /\ LET r == DeallocateAll(alloc, data, 1)
       IN \E order \in Orders(r.alloc.allocated_objects) :
            LET d == DestroyAllocator(r.alloc, order)
            IN /\ alloc' = d.alloc
               /\ dtorLog' = dtorLog \o r.destroyed \o d.destroyed
               /\ released' = released \cup {r.destroyed[i] : i \in DOMAIN r.destroyed}
               /\ last' = Call("~CustomContainer", 0, NULL, 0, NULL,
                               Len(r.destroyed) + Len(d.destroyed))
    /\ outstanding' = {i \in outstanding : \A j \in DOMAIN data : hist[i].addr # data[j]}
    /\ alive' = FALSE
    /\ out' = <<>>
    /\ UNCHANGED <<data, client, geometric, hist, other>>

\* ------------------------------------------------- a second allocator
\* The blocks the free store can hand out for a new vector of newSize bytes
\* while the block of held is held (none is taken for no bytes).
FreshPlaces(held, newSize) ==
    IF newSize = 0 THEN {NoPlace}
    ELSE {pl \in [data : HeapAddrs, capacity : {newSize}] :
            /\ pl.data + newSize <= HeapEnd
            /\ ~Overlaps(pl.data, newSize, held.data, held.capacity)}

\* The first of the blocks in S: where the second allocator's block lies is
\* seen by no operation, so the lowest free address stands for all of them.
FirstFit(S) == {pl \in S : \A q \in S : pl.data <= q.data}

\* A converting constructor that copies the source's cursor and live set.
ConvertingCopy_CopiesState(src, place) ==
    [block_size |-> src.block_size, allocated |-> src.allocated,
     buffer |-> resize(EmptyBuffer, src.block_size * SizeofRebound, place),
     allocated_objects |-> src.allocated_objects]

\* template <typename U> CustomAllocator(const CustomAllocator<U>& other):
\* block_size(other.block_size), allocated(0), then expand() with the new
\* element type's size.
ConvertingCopy(src, place) ==
    [block_size |-> src.block_size, allocated |-> 0,
     buffer |-> resize(EmptyBuffer, src.block_size * SizeofRebound, place),
     allocated_objects |-> {}]

\* The implicit copy constructor (same element type): every member is
\* copied; the vector's bytes go to a block of their own, the addresses in
\* allocated_objects are copied as they are.
CopyOf(src, place) ==
    [src EXCEPT !.buffer = [data |-> place.data, size |-> src.buffer.size,
                            capacity |-> place.capacity, gen |-> 1,
                            cells |-> src.buffer.cells]]

\* CustomAllocator<U> b(a), as rebind<U>::other is made from an allocator.
Convert ==
    /\ alive /\ client = "direct" /\ other.kind = "none"
    /\ \E place \in FirstFit(FreshPlaces(alloc.buffer, alloc.block_size * SizeofRebound)) :
         other' = [kind |-> "converted", alloc |-> ConvertingCopy(alloc, place),
                   alive |-> TRUE]
    /\ last' = Call("convert", 0, NULL, 0, NULL, 0)
    /\ out' = <<>>
    /\ UNCHANGED <<alloc, data, client, alive, geometric, hist, released, dtorLog,
                   outstanding>>

\* CustomAllocator<T> b(a), as made when an allocator is passed by value.
Copy ==
    /\ alive /\ client = "direct" /\ other.kind = "none"
    /\ \E place \in FirstFit(FreshPlaces(alloc.buffer, alloc.buffer.size)) :
         other' = [kind |-> "copy", alloc |-> CopyOf(alloc, place), alive |-> TRUE]
    /\ last' = Call("copy", 0, NULL, 0, NULL, 0)
    /\ out' = <<>>
    /\ UNCHANGED <<alloc, data, client, alive, geometric, hist, released, dtorLog,
                   outstanding>>

\* The second allocator goes out of scope: its destructor runs, then its
\* members are gone.
DestroyOther ==
    /\ other.alive
    /\ \E order \in Orders(other.alloc.allocated_objects) :
         LET r == DestroyAllocator(other.alloc, order)
         IN /\ other' = [other EXCEPT !.alloc = EmptyAllocator, !.alive = FALSE]
            /\ dtorLog' = dtorLog \o r.destroyed
            /\ last' = Call("~other", 0, NULL, 0, NULL, Len(r.destroyed))
    /\ out' = <<>>
    /\ UNCHANGED <<alloc, data, client, alive, geometric, hist, released, outstanding>>

Next ==
    \/ Allocate
    \/ Deallocate
    \/ Destroy
    \/ Add
    \/ Display
    \/ Iterate
    \/ DestroyContainer

Spec == Init /\ [][Next]_vars

\* An allocator of any block_size, used directly, and a second allocator
\* copied from it.
InitInstances ==
    /\ geometric \in BOOLEAN
    /\ client = "direct"
    /\ \E bs \in 0..MaxBlockSize :
         \E place \in FirstFit(Places(EmptyBuffer, bs * SizeofT, geometric)) :
            alloc = CustomAllocator(bs, place)
    /\ data = <<>>
    /\ alive = TRUE
    /\ hist = <<>>
    /\ dtorLog = <<>>
    /\ out = <<>>
    /\ released = {}
    /\ last = Call("construct", 0, NULL, 0, NULL, 0)
    /\ other = NoOther
    /\ outstanding = {}

NextInstances ==
    \/ Allocate
    \/ Deallocate
    \/ Destroy
    \/ Copy
    \/ DestroyOther

SpecInstances == InitInstances /\ [][NextInstances]_vars

\* An allocator of any block_size, used directly, and an allocator of another
\* element type converted from it.
NextRebind ==
    \/ Allocate
    \/ Deallocate
    \/ Destroy
    \/ Convert
    \/ DestroyOther

SpecRebind == InitInstances /\ [][NextRebind]_vars

\* ------------------------------------------------------------------ claims
LiveSet == alloc.allocated_objects
Increment == alloc.block_size * SizeofT
\* The bytes requested so far.
RequestedBytes ==
    LET RECURSIVE Sum(_)
        Sum(i) == IF i = 0 THEN 0 ELSE hist[i].n * SizeofT + Sum(i - 1)
    IN Sum(Len(hist))
IsAllocation(c) == c.op \in {"allocate", "add"} /\ c.n > 0

\* C1: in every state reached by allocate and deallocate calls the byte
\* cursor is within the buffer: allocated <= buffer.size().
C1_CursorWithinBuffer ==
    alive => alloc.allocated <= alloc.buffer.size

\* C2: the byte ranges [addr, addr + n*sizeof(T)) of any two allocations
\* returned by allocate never overlap.
C2_RangesDisjoint ==
    \A i, j \in DOMAIN hist :
        i < j => ~Overlaps(hist[i].addr, hist[i].n * SizeofT,
                           hist[j].addr, hist[j].n * SizeofT)

\* C3: every address in the live set lies within the current buffer, in
\* [buffer.data(), buffer.data() + allocated).
C3_LiveSetInBuffer ==
    alive => \A p \in LiveSet :
                /\ alloc.buffer.data <= p
                /\ p < alloc.buffer.data + alloc.allocated

\* C4: after allocate calls requesting B bytes in all, the buffer's size is
\* at least B and is the smallest multiple of block_size * sizeof(T) (one
\* increment at least) that is at least B.
C4_CapacityCoversRequests ==
    alive =>
        /\ alloc.buffer.size >= RequestedBytes
        /\ \E k \in 1..(RequestedBytes + 1) :
              /\ alloc.buffer.size = k * Increment
              /\ k * Increment >= RequestedBytes
              /\ k > 1 => (k - 1) * Increment < RequestedBytes

\* C5: display() and iteration yield exactly the values added, in the order
\* added, each read through its owned address.
C5_TraversalYieldsAdded ==
    last.op \in {"display", "iterate"} =>
        out = [i \in DOMAIN data |-> hist[i].value]

Returned == {hist[i].addr : i \in DOMAIN hist}
Occurrences(seq, x) == Cardinality({i \in DOMAIN seq : seq[i] = x})

\* C6: deallocate(p, n) on a p in the live set removes p from the live set
\* and invokes the destructor at p exactly once, changing nothing else; a
\* later deallocate(p, n), no allocate having returned p in between, invokes
\* no destructor and changes no allocator state.
C6_DeallocateTrackedOnce ==
    [][last'.op = "deallocate" =>
          /\ last'.p \in LiveSet =>
                /\ alloc' = [alloc EXCEPT !.allocated_objects = @ \ {last'.p}]
                /\ dtorLog' = Append(dtorLog, last'.p)
                /\ last'.destroyed = 1
                /\ last'.p \in released'
          /\ last'.p \in released =>
                /\ alloc' = alloc
                /\ dtorLog' = dtorLog
                /\ last'.destroyed = 0]_vars

\* A second deallocate of an address already released has just been made.
C6_Witness ==
    /\ last.op = "deallocate"
    /\ last.p \in released
    /\ last.destroyed = 0
    /\ Occurrences(dtorLog, last.p) = 1

\* C7: deallocate(p, n) on a p that is not in the live set (never returned
\* by allocate, or already released) leaves the cursor, the buffer and the
\* live set unchanged and invokes no destructor.
C7_DeallocateUntrackedNoOp ==
    [][(last'.op = "deallocate" /\ last'.p \notin LiveSet) =>
          /\ alloc'.allocated = alloc.allocated
          /\ alloc'.buffer = alloc.buffer
          /\ alloc'.allocated_objects = alloc.allocated_objects
          /\ alloc'.block_size = alloc.block_size
          /\ dtorLog' = dtorLog
          /\ last'.destroyed = 0]_vars

\* deallocate has just been called on an address allocate never returned,
\* while other allocations are live.
C7_Witness ==
    /\ last.op = "deallocate"
    /\ last.p \notin Returned
    /\ last.p # NULL
    /\ LiveSet # {}
    /\ dtorLog = <<>>

\* C8: allocate(0) returns null and leaves the cursor, the buffer's size and
\* the live set unchanged, in any state.
C8_AllocateZeroNoOp ==
    [][(last'.op = "allocate" /\ last'.n = 0) =>
          /\ last'.result = NULL
          /\ alloc'.allocated = alloc.allocated
          /\ alloc'.buffer = alloc.buffer
          /\ alloc'.allocated_objects = alloc.allocated_objects
          /\ hist' = hist]_vars

\* allocate(0) has just been called with the cursor at the end of the buffer.
C8_Witness ==
    /\ last.op = "allocate" /\ last.n = 0 /\ last.result = NULL
    /\ alloc.allocated = alloc.buffer.size
    /\ LiveSet # {}

\* Scenario A: the default block_size, allocate(1) called k times under the
\* build's growth policy, every new block placed right after the one it
\* replaces.
BlockAfter(a, geo) ==
    [data |-> a.buffer.data + a.buffer.capacity,
     capacity |-> NewCapacity(a.buffer, a.buffer.size + a.block_size * SizeofT, geo)]

RECURSIVE AllocateOnes(_, _)
AllocateOnes(k, geo) ==
    IF k = 0
    THEN CustomAllocator(DefaultBlockSize,
                         [data |-> SizeofT, capacity |-> DefaultBlockSize * SizeofT])
    ELSE LET a == AllocateOnes(k - 1, geo)
         IN allocate(a, 1, BlockAfter(a, geo)).alloc

ScenarioA ==
    /\ AllocateOnes(0, geometric).buffer.size = 40
    /\ AllocateOnes(0, geometric).allocated = 0
    /\ AllocateOnes(10, geometric).allocated = 40
    /\ AllocateOnes(10, geometric).buffer.size = 40
    /\ AllocateOnes(11, geometric).allocated = 44
    /\ AllocateOnes(11, geometric).buffer.size = 80

\* C9: right after construction the buffer's size is block_size * sizeof(T)
\* and the cursor 0; an allocate(n), n > 0, grows the buffer, by exactly one
\* increment, if and only if cursor + n * sizeof(T) exceeds the size (an
\* exact fit does not grow it); with block_size 10 and 4-byte elements, 10
\* allocate(1) calls leave cursor 40 and size 40 and the 11th makes it 80.
C9_GrowsOnlyPastCapacity ==
    /\ []ScenarioA
    /\ [](last.op = "construct" =>
            alloc.buffer.size = Increment /\ alloc.allocated = 0)
    /\ [][IsAllocation(last') =>
            alloc'.buffer.size =
                IF alloc.allocated + last'.n * SizeofT > alloc.buffer.size
                THEN alloc.buffer.size + Increment
                ELSE alloc.buffer.size]_vars

\* The first allocation filled the initial buffer exactly and did not grow
\* it; the next one did.
C9_Witness ==
    /\ Len(hist) = 2
    /\ hist[1].n * SizeofT = Increment /\ hist[1].gen = 1
    /\ hist[2].gen = 2
    /\ alloc.buffer.size = 2 * Increment

\* C10: ~CustomContainer calls deallocate(p, 1) once for each owned address
\* in insertion order, and the allocator's destructor that follows destructs
\* nothing more: over the teardown the destructor runs once per element.
C10_TeardownDestructsEachOnce ==
    last.op = "~CustomContainer" =>
        /\ dtorLog = data
        /\ last.destroyed = Len(data)

\* C11: after any number of add calls every owned address was returned by
\* the container's allocator's allocate(1) and had an element constructed in
\* it exactly once, and no two entries of data are the same address.
C11_OwnedAddressesDistinct ==
    client = "container" =>
        /\ \A i \in DOMAIN data : data[i] = hist[i].addr /\ hist[i].n = 1
        /\ \A i \in DOMAIN data :
              Cardinality({j \in DOMAIN hist : hist[j].addr = data[i]}) = 1
        /\ \A i, j \in DOMAIN data : i # j => data[i] # data[j]

\* C12: after construction and after every add, size() is the number of add
\* calls made so far and empty() is true exactly when size() = 0; each add
\* increases size() by exactly 1.
C12_SizeCountsAdds ==
    /\ [](client = "container" =>
            /\ last.op = "construct" => size(data) = 0 /\ empty(data)
            /\ alive => size(data) = Len(hist)
            /\ empty(data) <=> (size(data) = 0))
    /\ [][last'.op = "add" => size(data') = size(data) + 1]_vars

\* Two elements have been added, the second just now.
C12_Witness ==
    /\ client = "container"
    /\ last.op = "add"
    /\ size(data) = 2
    /\ ~empty(data)

\* C13: converting an allocator to another element type (converting copy,
\* rebind) yields an allocator with the source's block_size, a buffer of its
\* own that shares no storage with the source's, cursor 0 and an empty live
\* set, and leaves the source as it was.
C13_ConvertedAllocatorIsFresh ==
    [][last'.op = "convert" =>
          /\ other'.alive
          /\ other'.alloc.block_size = alloc.block_size
          /\ other'.alloc.allocated = 0
          /\ other'.alloc.allocated_objects = {}
          /\ other'.alloc.buffer.size = alloc.block_size * SizeofRebound
          /\ ~Overlaps(other'.alloc.buffer.data, other'.alloc.buffer.capacity,
                       alloc.buffer.data, alloc.buffer.capacity)
          /\ alloc' = alloc]_vars

\* C13 witness: a conversion made from an allocator holding a live block
\* and a cursor past 0.
C13_Witness ==
    /\ last.op = "convert"
    /\ alloc.allocated > 0
    /\ LiveSet # {}
    /\ other.alloc.buffer.size > 0
    /\ other.alloc.allocated = 0

\* C14: a block_size of 0 is rejected or replaced at construction: no
\* allocator has a growth increment of 0 bytes, and the first allocate(1) on
\* any constructed allocator fits its buffer.
C14_BlockSizePositive ==
    alive =>
        /\ Increment > 0
        /\ (Len(hist) = 1 /\ hist[1].n = 1) => alloc.allocated <= alloc.buffer.size

\* C15: over allocate and deallocate calls the cursor and the buffer's size
\* (and its block's capacity) never decrease, and a deallocate call, on a
\* tracked or an untracked pointer, changes neither: released bytes are
\* never reclaimed.
C15_CursorAndCapacityMonotonic ==
    [][alive' =>
          /\ alloc'.allocated >= alloc.allocated
          /\ alloc'.buffer.size >= alloc.buffer.size
          /\ alloc'.buffer.capacity >= alloc.buffer.capacity
          /\ last'.op = "deallocate" =>
                /\ alloc'.allocated = alloc.allocated
                /\ alloc'.buffer = alloc.buffer]_vars

\* Everything allocated has been released, the last just now, and the cursor
\* still stands after all the bytes requested.
C15_Witness ==
    /\ last.op = "deallocate" /\ last.destroyed = 1
    /\ LiveSet = {}
    /\ Len(hist) = 2
    /\ alloc.allocated = RequestedBytes

\* The addresses a step has added to dtorLog.
Destructed == SubSeq(dtorLog', Len(dtorLog) + 1, Len(dtorLog'))

\* C16: ~CustomAllocator invokes the element destructor exactly once for
\* each address still in the live set and for no other address; what
\* deallocate released is not destructed again.
C16_DestructorDestructsLiveSetOnce ==
    [][last'.op = "~CustomAllocator" =>
          /\ dtorLog' = dtorLog \o Destructed
          /\ {Destructed[i] : i \in DOMAIN Destructed} = LiveSet
          /\ \A p \in LiveSet : Occurrences(Destructed, p) = 1
          /\ \A i \in DOMAIN Destructed : Destructed[i] \notin released]_vars

\* The allocator has been destroyed with one object released before and
\* another still live.
C16_Witness ==
    /\ last.op = "~CustomAllocator"
    /\ last.destroyed = 1
    /\ released # {}
    /\ Len(dtorLog) = 2

\* C17: every allocate(n) with n > 0 succeeds: it returns a non-null
\* address, the one at the pre-call cursor of the (possibly grown) buffer,
\* advances the cursor by n * sizeof(T) and adds exactly the returned
\* address to the live set.
C17_AllocateSucceeds ==
    [][IsAllocation(last') =>
          /\ last'.result # NULL
          /\ last'.result = alloc'.buffer.data + alloc.allocated
          /\ alloc'.allocated = alloc.allocated + last'.n * SizeofT
          /\ alloc'.allocated_objects = alloc.allocated_objects \cup {last'.result}]_vars

\* C18: in every state reached by allocate and deallocate calls the live set
\* is exactly the set of addresses allocate(n > 0) returned that have not
\* since been passed to deallocate, and its size is the number of such
\* outstanding allocations.
C18_LiveSetIsOutstanding ==
    alive =>
        /\ LiveSet = {hist[i].addr : i \in outstanding}
        /\ Cardinality(LiveSet) = Cardinality(outstanding)
\* The destructor calls made so far at address p, and the objects
\* allocated so far at p.
DestructorCalls(p) == Occurrences(dtorLog, p)
AllocatedAt(p) == Cardinality({i \in DOMAIN hist : hist[i].addr = p})
InBufferOf(a, p) == a.buffer.data <= p /\ p < a.buffer.data + a.buffer.size

\* C19: over allocate, deallocate, same-type copy and destructor calls on
\* allocators of a positive block_size each slot is owned by one allocator
\* instance: the destructor is invoked at most once for each allocated
\* object, and every address in the live set of an allocator made by copy
\* refers to storage in that allocator's own buffer.
C19_SlotsOwnedByOneInstance ==
    alloc.block_size > 0 =>
    /\ \A p \in {dtorLog[i] : i \in DOMAIN dtorLog} : DestructorCalls(p) <= AllocatedAt(p)
    /\ other.alive => \A p \in other.alloc.allocated_objects : InBufferOf(other.alloc, p)

====
